---- MODULE Spec2Model ----
(***************************************************************************)
(* Model of router-rebooter: the command line validation of                *)
(* router_rebooter.py, RouterRebooter.start_main_loop with is_network_up,  *)
(* and the pin_pulser context manager of pulse_gpio_pin.py.                *)
(* Intervals are whole seconds.                                            *)
(***************************************************************************)
EXTENDS Integers, Sequences, FiniteSets, TLC

\* ---------------------------------------------------------------- bounds
MaxInterval == 3
MaxLimit == 3
MaxCount == 4

\* ------------------------------------------------------ program constants
PING_INTERFACE == "wlan0"
PING_DESTINATIONS == <<"1.1.1.1", "4.2.2.2", "8.8.8.8">>
MIN_PING_INTERVAL == 1
MAX_PIN_NUM == 27
EXIT_USAGE == 2
EXIT_NO_INTERFACE == 5

VARIABLES
    args,                   \* the parsed command line (argparse namespace)
    operstate,              \* content of /sys/class/net/<interface>/operstate
    pc,                     \* position of the process
    exit_code,              \* status passed to sys.exit, -1 while sys.exit was not called
    reboot_count,           \* self.reboot_count
    reboots_reached_limit,  \* self.reboots_reached_limit
    ping_dests,             \* is_network_up: the shuffled local list
    reachable,              \* destinations that answer a ping in this round
    idx,                    \* is_network_up: position of any() in ping_dests
    pinged,                 \* destinations pinged in this round, in order
    verdict,                \* value returned by is_network_up
    sleeping,               \* argument of the sleep() in progress
    gpio_line,              \* state of the relay pin
    raised,                 \* an exception is propagating out of pin_pulser
    logged,                 \* log lines written in the current iteration
    pulses,                 \* calls of pulse_pin in the current iteration
    before,                 \* reboot_count, reboots_reached_limit at the verdict
    downs,                  \* consecutive down verdicts since the counter restarted
    verified,               \* number of calls of verify_interface
    probed,                 \* a ping has been issued since process start
    pulsed,                 \* pulse_pin was called since process start
    slept,                  \* sleep() was called since process start
    attempts                \* calls of pulse_pin since the counter restarted

vars == <<args, operstate, pc, exit_code, reboot_count, reboots_reached_limit,
          ping_dests, reachable, idx, pinged, verdict, sleeping, gpio_line,
          raised, logged, pulses, before, downs, verified, probed, pulsed, slept,
          attempts>>

\* --------------------------------------------------------------- helpers
Range(s) == {s[i] : i \in 1..Len(s)}

Shuffles(s) ==
    {p \in [1..Len(s) -> Range(s)] : \A i, j \in 1..Len(s) : i # j => p[i] # p[j]}

Line(msg, n) == [msg |-> msg, n |-> n]

Log(msg, n) == Append(logged, Line(msg, n))

Messages(l) == {l[i].msg : i \in 1..Len(l)}

\* ------------------------------------------------- argument validation
PinInRange(p) == 0 < p /\ p < MAX_PIN_NUM

\* pulse_gpio_pin.py __main__: the PIN_NUM that its command line accepts
PIN_NUM_Accepted(pin_num) == ~(pin_num < 1 \/ pin_num > MAX_PIN_NUM)

\* mutant: the comparison of the two intervals after a reboot is missing
ArgsAccepted_NoPostRebootCheck(a) ==
    /\ PinInRange(a.relay_gpio_pin)
    /\ ~(a.pulse_for_seconds <= 0)
    /\ ~(a.ping_interval < MIN_PING_INTERVAL)
    /\ ~(a.post_reboot_limit_interval < a.post_reboot_interval)

ArgsAccepted(a) ==
    /\ PinInRange(a.relay_gpio_pin)
    /\ ~(a.pulse_for_seconds <= 0)
    /\ ~(a.ping_interval < MIN_PING_INTERVAL)
    /\ ~(a.post_reboot_interval < a.ping_interval)
    /\ ~(a.post_reboot_limit_interval < a.post_reboot_interval)

ArgSpace ==
    [interface : {PING_INTERFACE},
     ping_interval : 0..MaxInterval,
     post_reboot_interval : 0..MaxInterval,
     reboot_limit : -1..MaxLimit,
     post_reboot_limit_interval : 0..MaxInterval,
     relay_gpio_pin : {0, 1, MAX_PIN_NUM, MAX_PIN_NUM + 1},
     pulse_for_seconds : {-1, 0, 2}]

\* ------------------------------------------------------------------ Init
Init ==
    /\ args \in ArgSpace
    /\ operstate \in {"up", "down", "absent"}
    /\ pc = "main"
    /\ exit_code = -1
    /\ reboot_count = 0
    /\ reboots_reached_limit = FALSE
    /\ ping_dests = <<>>
    /\ reachable = {}
    /\ idx = 0
    /\ pinged = <<>>
    /\ verdict = FALSE
    /\ sleeping = 0
    /\ gpio_line = "released"
    /\ raised = FALSE
    /\ logged = <<>>
    /\ pulses = 0
    /\ before = [count |-> 0, limit |-> FALSE]
    /\ downs = 0
    /\ verified = 0
    /\ probed = FALSE
    /\ pulsed = FALSE
    /\ slept = FALSE
    /\ attempts = 0

\* ----------------------------------------------------------------- main
\* __main__: parse, validate, construct the RouterRebooter
Main ==
    /\ pc = "main"
    /\ IF ArgsAccepted(args)
         THEN /\ pc' = "start"
              /\ exit_code' = exit_code
         ELSE /\ pc' = "exited"
              /\ exit_code' = EXIT_USAGE
    /\ reboot_count' = 0
    /\ reboots_reached_limit' = FALSE
    /\ UNCHANGED <<args, operstate, ping_dests, reachable, idx, pinged, verdict,
                   sleeping, gpio_line, raised, logged, pulses, before, downs,
                   verified, probed, pulsed, slept,
                   attempts>>

\* verify_interface: `cat .../operstate` succeeded and printed "up\n"
CatOperstate(state) ==
    IF state = "absent" THEN [returncode |-> 1, stdout |-> ""]
                        ELSE [returncode |-> 0, stdout |-> state]

\* mutant: only the return code of cat is looked at
verify_interface_ReturncodeOnly(state) ==
    CatOperstate(state).returncode = 0

verify_interface(state) ==
    CatOperstate(state).returncode = 0 /\ CatOperstate(state).stdout = "up"

\* start_main_loop, the startup guard and the two start-up log lines
VerifyInterface ==
    /\ pc = "start"
    /\ verified' = verified + 1
    /\ IF ~verify_interface(operstate)
         THEN /\ logged' = Append(Log("interface_not_up", 0), Line("exiting", 0))
              /\ pc' = "exited"
              /\ exit_code' = EXIT_NO_INTERFACE
              /\ UNCHANGED <<sleeping, slept>>
         ELSE /\ logged' = Append(Log("started", 0),
                                  Line("first_ping_in", args.ping_interval))
              /\ pc' = "warmup"
              /\ sleeping' = args.ping_interval
              /\ slept' = TRUE
              /\ UNCHANGED exit_code
    /\ UNCHANGED <<args, operstate, reboot_count, reboots_reached_limit,
                   ping_dests, reachable, idx, pinged, verdict, gpio_line,
                   raised, pulses, before, downs, probed, pulsed,
                   attempts>>

\* the warm-up sleep returns and the loop is entered
WarmUp ==
    /\ pc = "warmup"
    /\ pc' = "loop"
    /\ sleeping' = 0
    /\ UNCHANGED <<args, operstate, exit_code, reboot_count, reboots_reached_limit,
                   ping_dests, reachable, idx, pinged, verdict, gpio_line, raised,
                   logged, pulses, before, downs, verified, probed, pulsed, slept,
                   attempts>>

\* the counter grows without limit when reboot_limit <= 0; the model stops
\* observing down verdicts there once it has reached MaxCount
MayBeDown == args.reboot_limit > 0 \/ reboot_count < MaxCount

\* is_network_up: copy and shuffle the destinations; the environment fixes
\* which destinations answer in this round
Shuffle ==
    /\ pc = "loop"
    /\ \E order \in Shuffles(PING_DESTINATIONS) : ping_dests' = order
    /\ \E answer \in SUBSET Range(PING_DESTINATIONS) :
          /\ answer = {} => MayBeDown
          /\ reachable' = answer
    /\ idx' = 1
    /\ pinged' = <<>>
    /\ logged' = <<>>
    /\ pulses' = 0
    /\ downs' = IF "reached_limit" \in Messages(logged) THEN 0 ELSE downs
    /\ pc' = "ping"
    /\ UNCHANGED <<args, operstate, exit_code, reboot_count, reboots_reached_limit,
                   verdict, sleeping, gpio_line, raised, before, verified, probed,
                   pulsed, slept,
                   attempts>>

\* ping: exit code of the ping command for one destination
ping(destination, answer) == destination \in answer

\* mutant: all() in place of any()
AnyStep_All(result, i, n) ==
    IF ~result THEN [done |-> TRUE, value |-> FALSE, next |-> i]
    ELSE IF i = n THEN [done |-> TRUE, value |-> TRUE, next |-> i]
    ELSE [done |-> FALSE, value |-> FALSE, next |-> i + 1]

\* mutant: the pings are all made before any() looks at the results
AnyStep_NoShortCircuit(result, i, n) ==
    IF i = n THEN [done |-> TRUE, value |-> result, next |-> i]
    ELSE [done |-> FALSE, value |-> FALSE, next |-> i + 1]

\* any(map(ping, ping_dests)): one step of the lazy iteration
AnyStep(result, i, n) ==
    IF result THEN [done |-> TRUE, value |-> TRUE, next |-> i]
    ELSE IF i = n THEN [done |-> TRUE, value |-> FALSE, next |-> i]
    ELSE [done |-> FALSE, value |-> FALSE, next |-> i + 1]

Ping ==
    /\ pc = "ping"
    /\ idx <= Len(ping_dests)
    /\ LET step == AnyStep(ping(ping_dests[idx], reachable), idx, Len(ping_dests))
       IN /\ idx' = step.next
          /\ IF step.done
               THEN /\ verdict' = step.value
                    /\ before' = [count |-> reboot_count,
                                  limit |-> reboots_reached_limit]
                    /\ pc' = "decide"
               ELSE UNCHANGED <<verdict, before, pc>>
    /\ pinged' = Append(pinged, ping_dests[idx])
    /\ probed' = TRUE
    /\ UNCHANGED <<args, operstate, exit_code, reboot_count, reboots_reached_limit,
                   ping_dests, reachable, sleeping, gpio_line, raised, logged,
                   pulses, downs, verified, pulsed, slept,
                   attempts>>

\* mutant: the flag is forgotten in the condition
NeedsRecovery_CountOnly(count, limit) == count > 0

\* mutant: the recovery is logged on every up verdict
NeedsRecovery_Always(count, limit) == TRUE

\* mutant: the counter is forgotten in the condition
NeedsRecovery_FlagOnly(count, limit) == limit

\* the condition of the if at the top of the up branch
NeedsRecovery(count, limit) == count > 0 \/ limit

\* the up branch of the loop
NetworkUp ==
    /\ pc = "decide"
    /\ verdict
    /\ IF NeedsRecovery(reboot_count, reboots_reached_limit)
         THEN /\ logged' = Log("back_up", 0)
              /\ reboots_reached_limit' = FALSE
              /\ reboot_count' = 0
         ELSE UNCHANGED <<logged, reboots_reached_limit, reboot_count>>
    /\ sleeping' = args.ping_interval
    /\ pc' = "sleep"
    /\ attempts' = 0
    /\ downs' = 0
    /\ ping_dests' = <<>>
    /\ reachable' = {}
    /\ idx' = 0
    /\ pinged' = <<>>
    /\ UNCHANGED <<args, operstate, exit_code, verdict, gpio_line, raised, pulses,
                   before, verified, probed, pulsed, slept>>

\* mutant: > in place of >=
AtLimit_OffByOne(count, limit) == limit > 0 /\ count > limit

\* mutant: the test reboot_limit > 0 is missing
AtLimit_NoZeroGuard(count, limit) == count >= limit

\* the condition of the elif
AtLimit(count, limit) == limit > 0 /\ count >= limit

\* mutant: the limit branch leaves the counter as it is
LimitReached_KeepsCount ==
    /\ pc = "decide"
    /\ ~verdict
    /\ AtLimit(reboot_count, args.reboot_limit)
    /\ reboots_reached_limit' = TRUE
    /\ logged' = Append(Log("reached_limit", args.reboot_limit),
                        Line("sleeping_for", args.post_reboot_limit_interval))
    /\ sleeping' = args.post_reboot_limit_interval
    /\ pc' = "sleep"
    /\ attempts' = 0
    /\ downs' = downs + 1
    /\ ping_dests' = <<>>
    /\ reachable' = {}
    /\ idx' = 0
    /\ pinged' = <<>>
    /\ UNCHANGED <<args, operstate, exit_code, reboot_count, verdict, gpio_line,
                   raised, pulses, before, verified, probed, pulsed, slept>>

\* mutant: the limit branch sleeps post_reboot_interval
LimitReached_ShortSleep ==
    /\ pc = "decide"
    /\ ~verdict
    /\ AtLimit(reboot_count, args.reboot_limit)
    /\ reboot_count' = 0
    /\ reboots_reached_limit' = TRUE
    /\ logged' = Append(Log("reached_limit", args.reboot_limit),
                        Line("sleeping_for", args.post_reboot_limit_interval))
    /\ sleeping' = args.post_reboot_interval
    /\ pc' = "sleep"
    /\ attempts' = 0
    /\ downs' = downs + 1
    /\ ping_dests' = <<>>
    /\ reachable' = {}
    /\ idx' = 0
    /\ pinged' = <<>>
    /\ UNCHANGED <<args, operstate, exit_code, verdict, gpio_line, raised, pulses,
                   before, verified, probed, pulsed, slept>>

\* mutant: the limit branch assigns 0 to reboot_limit in place of reboot_count
LimitReached_WritesLimit ==
    /\ pc = "decide"
    /\ ~verdict
    /\ AtLimit(reboot_count, args.reboot_limit)
    /\ args' = [args EXCEPT !.reboot_limit = 0]
    /\ reboots_reached_limit' = TRUE
    /\ logged' = Append(Log("reached_limit", args.reboot_limit),
                        Line("sleeping_for", args.post_reboot_limit_interval))
    /\ sleeping' = args.post_reboot_limit_interval
    /\ pc' = "sleep"
    /\ attempts' = 0
    /\ downs' = downs + 1
    /\ ping_dests' = <<>>
    /\ reachable' = {}
    /\ idx' = 0
    /\ pinged' = <<>>
    /\ UNCHANGED <<operstate, exit_code, reboot_count, verdict, gpio_line, raised,
                   pulses, before, verified, probed, pulsed, slept>>

\* the limit branch of the loop
LimitReached ==
    /\ pc = "decide"
    /\ ~verdict
    /\ AtLimit(reboot_count, args.reboot_limit)
    /\ reboot_count' = 0
    /\ reboots_reached_limit' = TRUE
    /\ logged' = Append(Log("reached_limit", args.reboot_limit),
                        Line("sleeping_for", args.post_reboot_limit_interval))
    /\ sleeping' = args.post_reboot_limit_interval
    /\ pc' = "sleep"
    /\ attempts' = 0
    /\ downs' = downs + 1
    /\ ping_dests' = <<>>
    /\ reachable' = {}
    /\ idx' = 0
    /\ pinged' = <<>>
    /\ UNCHANGED <<args, operstate, exit_code, verdict, gpio_line, raised, pulses,
                   before, verified, probed, pulsed, slept>>

\* the else branch up to the with statement
NetworkDown ==
    /\ pc = "decide"
    /\ ~verdict
    /\ ~AtLimit(reboot_count, args.reboot_limit)
    /\ logged' = Log("down_pulsing", args.relay_gpio_pin)
    /\ pc' = "with"
    /\ downs' = downs + 1
    /\ ping_dests' = <<>>
    /\ reachable' = {}
    /\ idx' = 0
    /\ pinged' = <<>>
    /\ UNCHANGED <<args, operstate, exit_code, reboot_count, reboots_reached_limit,
                   verdict, sleeping, gpio_line, raised, pulses, before, verified,
                   probed, pulsed, slept,
                   attempts>>

\* pin_pulser up to the yield: setwarnings, setmode, setup as an output;
\* a GPIO call that raises sends control to the finally clause
PinPulserEnter ==
    /\ pc = "with"
    /\ \E ok \in BOOLEAN :
          IF ok THEN /\ gpio_line' = "low"
                     /\ pc' = "output_on"
                     /\ UNCHANGED raised
                ELSE /\ raised' = TRUE
                     /\ pc' = "finally"
                     /\ UNCHANGED gpio_line
    /\ UNCHANGED <<args, operstate, exit_code, reboot_count, reboots_reached_limit,
                   ping_dests, reachable, idx, pinged, verdict, sleeping, logged,
                   pulses, before, downs, verified, probed, pulsed, slept,
                   attempts>>

\* pulse_pin is called: GPIO.output(pin_num, True), then sleep(for_seconds)
OutputOn ==
    /\ pc = "output_on"
    /\ pulses' = pulses + 1
    /\ pulsed' = TRUE
    /\ attempts' = attempts + 1
    /\ \E ok \in BOOLEAN :
          IF ok THEN /\ gpio_line' = "high"
                     /\ sleeping' = args.pulse_for_seconds
                     /\ pc' = "output_off"
                     /\ UNCHANGED raised
                ELSE /\ raised' = TRUE
                     /\ pc' = "finally"
                     /\ UNCHANGED <<gpio_line, sleeping>>
    /\ UNCHANGED <<args, operstate, exit_code, reboot_count, reboots_reached_limit,
                   ping_dests, reachable, idx, pinged, verdict, logged, before,
                   downs, verified, probed, slept>>

\* pulse_pin: the sleep returns and GPIO.output(pin_num, False) is called;
\* either of them may raise, which leaves the pin as it is
OutputOff ==
    /\ pc = "output_off"
    /\ sleeping' = 0
    /\ pc' = "finally"
    /\ \E outcome \in {"ok", "sleep_raises", "output_raises"} :
          IF outcome = "ok" THEN /\ gpio_line' = "low"
                                 /\ UNCHANGED raised
                            ELSE /\ raised' = TRUE
                                 /\ UNCHANGED gpio_line
    /\ UNCHANGED <<args, operstate, exit_code, reboot_count, reboots_reached_limit,
                   ping_dests, reachable, idx, pinged, verdict, logged, pulses,
                   before, downs, verified, probed, pulsed, slept,
                   attempts>>

\* mutant: GPIO.cleanup() after the yield, without try/finally
Finally_CleanupOnSuccessOnly ==
    /\ pc = "finally"
    /\ gpio_line' = IF raised THEN gpio_line ELSE "released"
    /\ pc' = IF raised THEN "crashed" ELSE "after_with"
    /\ UNCHANGED <<args, operstate, exit_code, reboot_count, reboots_reached_limit,
                   ping_dests, reachable, idx, pinged, verdict, sleeping, raised,
                   logged, pulses, before, downs, verified, probed, pulsed, slept,
                   attempts>>

\* the finally clause: GPIO.cleanup() returns the pin to an input; an
\* exception raised in the block propagates out of start_main_loop and ends
\* the process with a traceback
Finally ==
    /\ pc = "finally"
    /\ gpio_line' = "released"
    /\ pc' = IF raised THEN "crashed" ELSE "after_with"
    /\ UNCHANGED <<args, operstate, exit_code, reboot_count, reboots_reached_limit,
                   ping_dests, reachable, idx, pinged, verdict, sleeping, raised,
                   logged, pulses, before, downs, verified, probed, pulsed, slept,
                   attempts>>

\* mutant: the sleep after a reboot attempt uses the ping interval
CountReboot_WrongSleep ==
    /\ pc = "after_with"
    /\ reboot_count' = reboot_count + 1
    /\ logged' = Log("reboot_attempt", reboot_count + 1)
    /\ sleeping' = args.ping_interval
    /\ pc' = "sleep"
    /\ UNCHANGED <<args, operstate, exit_code, reboots_reached_limit, ping_dests,
                   reachable, idx, pinged, verdict, gpio_line, raised, pulses,
                   before, downs, verified, probed, pulsed, slept,
                   attempts>>

\* mutant: the increment of reboot_count is missing
CountReboot_NoIncrement ==
    /\ pc = "after_with"
    /\ logged' = Log("reboot_attempt", reboot_count)
    /\ sleeping' = args.post_reboot_interval
    /\ pc' = "sleep"
    /\ UNCHANGED <<args, operstate, exit_code, reboot_count, reboots_reached_limit,
                   ping_dests, reachable, idx, pinged, verdict, gpio_line, raised,
                   pulses, before, downs, verified, probed, pulsed, slept,
                   attempts>>

\* mutant: a reboot attempt clears reboots_reached_limit
CountReboot_ClearsFlag ==
    /\ pc = "after_with"
    /\ reboot_count' = reboot_count + 1
    /\ reboots_reached_limit' = FALSE
    /\ logged' = Log("reboot_attempt", reboot_count + 1)
    /\ sleeping' = args.post_reboot_interval
    /\ pc' = "sleep"
    /\ UNCHANGED <<args, operstate, exit_code, ping_dests, reachable, idx, pinged,
                   verdict, gpio_line, raised, pulses, before, downs, verified,
                   probed, pulsed, slept, attempts>>

\* the else branch after the with statement
CountReboot ==
    /\ pc = "after_with"
    /\ reboot_count' = reboot_count + 1
    /\ logged' = Log("reboot_attempt", reboot_count + 1)
    /\ sleeping' = args.post_reboot_interval
    /\ pc' = "sleep"
    /\ UNCHANGED <<args, operstate, exit_code, reboots_reached_limit, ping_dests,
                   reachable, idx, pinged, verdict, gpio_line, raised, pulses,
                   before, downs, verified, probed, pulsed, slept,
                   attempts>>

\* the sleep at the end of a branch returns; next iteration of while True
Wake ==
    /\ pc = "sleep"
    /\ sleeping' = 0
    /\ pc' = "loop"
    /\ UNCHANGED <<args, operstate, exit_code, reboot_count, reboots_reached_limit,
                   ping_dests, reachable, idx, pinged, verdict, gpio_line, raised,
                   logged, pulses, before, downs, verified, probed, pulsed, slept,
                   attempts>>

Next ==
    \/ Main
    \/ VerifyInterface
    \/ WarmUp
    \/ Shuffle
    \/ Ping
    \/ NetworkUp
    \/ LimitReached
    \/ NetworkDown
    \/ PinPulserEnter
    \/ OutputOn
    \/ OutputOff
    \/ Finally
    \/ CountReboot
    \/ Wake

Spec == Init /\ [][Next]_vars

\* the loop is the only thread: every sleep and every subprocess returns
LiveSpec == Spec /\ WF_vars(Next)

TypeOK ==
    /\ args \in ArgSpace
    /\ operstate \in {"up", "down", "absent"}
    /\ pc \in {"main", "start", "warmup", "loop", "ping", "decide", "with",
               "output_on", "output_off", "finally", "after_with", "sleep",
               "exited", "crashed"}
    /\ exit_code \in {-1, EXIT_USAGE, EXIT_NO_INTERFACE}
    /\ reboot_count \in Nat
    /\ reboots_reached_limit \in BOOLEAN
    /\ reachable \subseteq Range(PING_DESTINATIONS)
    /\ idx \in 0..Len(PING_DESTINATIONS)
    /\ verdict \in BOOLEAN
    /\ sleeping \in 0..MaxInterval
    /\ gpio_line \in {"released", "low", "high"}
    /\ raised \in BOOLEAN
    /\ pulses \in Nat
    /\ downs \in Nat
    /\ verified \in Nat
    /\ attempts \in Nat
    /\ probed \in BOOLEAN /\ pulsed \in BOOLEAN /\ slept \in BOOLEAN

\* ------------------------------------------------------------------ claims

\* C1: with reboot_limit > 0, reboot_count stays within 0..reboot_limit in
\* every reachable state, the states between the pulse and the increment
\* included.
C1_CountWithinLimit ==
    args.reboot_limit > 0 => reboot_count \in 0..args.reboot_limit

C1_Witness ==
    /\ args.reboot_limit > 1
    /\ pc = "sleep"
    /\ reboot_count = args.reboot_limit

\* C2 as stated: whenever the loop sleeps at the end of an iteration,
\* reboots_reached_limit and reboot_count > 0 are not both true.
C2_Original ==
    pc = "sleep" => ~(reboots_reached_limit /\ reboot_count > 0)

\* C2 amended: whenever the loop sleeps at the end of an iteration,
\* reboots_reached_limit and reboot_count > 0 are both true exactly when the
\* iteration was a reboot attempt made while reboots_reached_limit was already
\* set; after an up verdict and after entering the limit backoff they never are.
C2_ExclusiveUnlessAttemptAfterBackoff ==
    pc = "sleep" =>
        ((reboots_reached_limit /\ reboot_count > 0)
            <=> ("reboot_attempt" \in Messages(logged) /\ before.limit))

C2_Witness ==
    /\ pc = "sleep"
    /\ "reached_limit" \in Messages(logged)
    /\ before.count > 1
    /\ before.limit
    /\ reboots_reached_limit
    /\ reboot_count = 0

\* C3: with reboot_limit = N > 0 and the counter at 0, the k-th consecutive
\* down verdict, k = 1..N, calls pulse_pin exactly once, leaves the counter at
\* k and sleeps post_reboot_interval; the (N+1)-th calls pulse_pin not at all,
\* sets reboots_reached_limit, resets the counter to 0 and sleeps
\* post_reboot_limit_interval.
C3_DownSequence ==
    /\ pulses <= 1
    /\ (args.reboot_limit > 0 /\ pc = "sleep" /\ ~verdict) =>
        /\ downs \in 1..(args.reboot_limit + 1)
        /\ downs <= args.reboot_limit =>
              /\ pulses = 1
              /\ reboot_count = downs
              /\ Line("reboot_attempt", downs) \in Range(logged)
              /\ sleeping = args.post_reboot_interval
        /\ downs = args.reboot_limit + 1 =>
              /\ pulses = 0
              /\ reboots_reached_limit
              /\ reboot_count = 0
              /\ sleeping = args.post_reboot_limit_interval

C3_Witness ==
    /\ args.reboot_limit > 1
    /\ args.ping_interval < args.post_reboot_interval
    /\ args.post_reboot_interval < args.post_reboot_limit_interval
    /\ pc = "sleep"
    /\ ~verdict
    /\ downs = args.reboot_limit + 1
    /\ ~before.limit
    /\ sleeping = args.post_reboot_limit_interval

\* C4: with reboot_limit = 0 the limit branch is never taken and
\* reboots_reached_limit is false in every reachable state; every down verdict
\* calls pulse_pin exactly once, counts one attempt and sleeps
\* post_reboot_interval.
C4_NoLimit ==
    args.reboot_limit = 0 =>
        /\ ~reboots_reached_limit
        /\ "reached_limit" \notin Messages(logged)
        /\ (pc = "sleep" /\ ~verdict) =>
              /\ pulses = 1
              /\ reboot_count = before.count + 1
              /\ sleeping = args.post_reboot_interval

C4_Witness ==
    /\ args.reboot_limit = 0
    /\ args.ping_interval < args.post_reboot_interval
    /\ pc = "sleep"
    /\ ~verdict
    /\ reboot_count = MaxCount

\* C5: an iteration whose verdict is up calls pulse_pin not at all, leaves
\* reboot_count = 0 and reboots_reached_limit = FALSE, logs the recovery
\* exactly when one of them was set before, and sleeps ping_interval.
C5_UpWins ==
    (pc = "sleep" /\ verdict) =>
        /\ pulses = 0
        /\ reboot_count = 0
        /\ ~reboots_reached_limit
        /\ sleeping = args.ping_interval
        /\ ("back_up" \in Messages(logged)) <=> (before.count > 0 \/ before.limit)

C5_Witness ==
    /\ pc = "sleep"
    /\ verdict
    /\ args.reboot_limit > 0
    /\ before.count = args.reboot_limit
    /\ before.limit
    /\ args.ping_interval < args.post_reboot_interval
    /\ "back_up" \in Messages(logged)

\* C6: an up verdict in the baseline state (reboot_count = 0,
\* reboots_reached_limit = FALSE) changes neither field, calls pulse_pin not at
\* all and logs nothing; the recovery line is written only by an up verdict
\* taken with reboot_count > 0 or reboots_reached_limit set.
C6_UpIdempotent ==
    [][/\ (pc = "decide" /\ verdict /\ reboot_count = 0 /\ ~reboots_reached_limit) =>
            /\ reboot_count' = 0
            /\ ~reboots_reached_limit'
            /\ logged' = logged
            /\ pulses' = pulses
            /\ pulsed' = pulsed
            /\ pc' = "sleep"
       /\ (Line("back_up", 0) \in Range(logged') \ Range(logged)) =>
            /\ pc = "decide"
            /\ verdict
            /\ reboot_count > 0 \/ reboots_reached_limit]_vars

C6_Witness ==
    /\ pc = "sleep"
    /\ verdict
    /\ before.count = 0
    /\ ~before.limit
    /\ pulsed
    /\ logged = <<>>
    /\ reboot_count = 0
    /\ ~reboots_reached_limit

\* C7: is_network_up returns true exactly when at least one destination
\* answers, whatever the shuffle order.
C7_AnyReachable ==
    pc = "decide" => (verdict <=> reachable # {})

C7_Witness ==
    /\ pc = "decide"
    /\ verdict
    /\ Cardinality(reachable) = 1
    /\ Len(pinged) = Len(PING_DESTINATIONS)
    /\ ping_dests # PING_DESTINATIONS

\* C8: when the interface is not up at the startup guard, the process exits
\* with status 5 without having slept, pinged or pulsed, and the check is
\* made only once.
C8_StartupGuard ==
    /\ verified <= 1
    /\ (verified > 0 /\ operstate # "up") =>
          /\ pc = "exited"
          /\ exit_code = 5
          /\ ~slept
          /\ ~probed
          /\ ~pulsed

C8_Witness ==
    /\ verified = 1
    /\ operstate = "down"
    /\ pc = "exited"
    /\ exit_code = 5

\* C9: a command line with pulse_for_seconds <= 0, ping_interval < 1,
\* post_reboot_interval < ping_interval or post_reboot_limit_interval <
\* post_reboot_interval exits with status 2, which is not the status 5 of the
\* startup guard, before any interface check, ping, sleep or pulse.
C9_ConfigRejected ==
    (/\ pc # "main"
     /\ \/ args.pulse_for_seconds <= 0
        \/ args.ping_interval < 1
        \/ args.post_reboot_interval < args.ping_interval
        \/ args.post_reboot_limit_interval < args.post_reboot_interval) =>
        /\ pc = "exited"
        /\ exit_code = 2
        /\ exit_code # EXIT_NO_INTERFACE
        /\ verified = 0
        /\ ~slept
        /\ ~probed
        /\ ~pulsed

C9_Witness ==
    /\ pc = "exited"
    /\ exit_code = 2
    /\ PinInRange(args.relay_gpio_pin)
    /\ args.pulse_for_seconds > 0
    /\ args.ping_interval > 1
    /\ args.post_reboot_interval > 0
    /\ args.post_reboot_interval < args.ping_interval
    /\ args.post_reboot_limit_interval >= args.post_reboot_interval

\* C10: a command line with reboot_limit < 0 is rejected with the usage exit
\* status, so that the loop never runs with a negative reboot_limit.
C10_NegativeLimitRejected ==
    (args.reboot_limit < 0 /\ pc # "main") => (pc = "exited" /\ exit_code = EXIT_USAGE)

\* C11: with reboot_limit = N > 0 and every verdict down, the limit branch is
\* taken again and again; each time it is taken, pulse_pin has been called
\* exactly N times since the counter restarted (process start or the previous
\* backoff) and not at all in the iteration that takes it.
C11_BackoffRepeats ==
    /\ [][(pc = "decide" /\ "reached_limit" \in Messages(logged')) =>
            /\ attempts = args.reboot_limit
            /\ pulses = 0
            /\ pulses' = 0
            /\ attempts' = 0]_vars
    /\ (/\ args.reboot_limit > 0
        /\ ArgsAccepted(args)
        /\ operstate = "up"
        /\ [](pc = "decide" => ~verdict))
          => []<>(pc = "sleep" /\ "reached_limit" \in Messages(logged))

\* C12: once the startup guard has passed, nothing ends the process: a GPIO
\* call that raises inside pin_pulser is taken as a delivered pulse, the
\* attempt is counted and the loop goes on to its sleep.
C12_LoopNeverTerminates ==
    (verified = 1 /\ verify_interface(operstate)) =>
        /\ pc \notin {"exited", "crashed"}
        /\ (raised /\ pc # "finally") => pc \in {"after_with", "sleep", "loop"}

\* C13: a use of pin_pulser drives the pin low, high, low and releases it;
\* the pin is high only inside pulse_pin, and once the with-block has ended,
\* normally or by an exception raised at any step, GPIO.cleanup has run and
\* the pin is not left high.
C13_LineReleased ==
    /\ gpio_line = "high" => pc \in {"output_off", "finally"}
    /\ pc = "output_on" => gpio_line = "low"
    /\ pc = "output_off" => gpio_line = "high"
    /\ (pc = "finally" /\ ~raised) => (gpio_line = "low" /\ pulses = 1)
    /\ pc \notin {"output_on", "output_off", "finally"} => gpio_line = "released"

C13_Witness ==
    /\ pc = "crashed"
    /\ raised
    /\ pulses = 1
    /\ reboot_count > 0
    /\ gpio_line = "released"

\* C14: with the other arguments valid, --relay-gpio-pin is accepted exactly
\* when it lies in 1..MAX_PIN_NUM, the range that the pulse_gpio_pin command
\* line accepts; every other value exits with status 2.
C14_PinRange ==
    (/\ pc # "main"
     /\ args.pulse_for_seconds > 0
     /\ args.ping_interval >= MIN_PING_INTERVAL
     /\ args.post_reboot_interval >= args.ping_interval
     /\ args.post_reboot_limit_interval >= args.post_reboot_interval) =>
        /\ PIN_NUM_Accepted(args.relay_gpio_pin) <=> args.relay_gpio_pin \in 1..MAX_PIN_NUM
        /\ PIN_NUM_Accepted(args.relay_gpio_pin) <=> ~(pc = "exited" /\ exit_code = EXIT_USAGE)

\* C15 as stated: within one call of is_network_up the destinations are
\* pinged in the shuffled order, each at most once, none after the first one
\* that answers, and all of them only when every ping fails.
C15_Original ==
    pc \in {"ping", "decide"} =>
        /\ pinged = SubSeq(ping_dests, 1, Len(pinged))
        /\ Cardinality(Range(pinged)) = Len(pinged)
        /\ \A i \in 1..(Len(pinged) - 1) : pinged[i] \notin reachable
        /\ Len(pinged) = Len(PING_DESTINATIONS) =>
              \A i \in 1..Len(pinged) : pinged[i] \notin reachable

\* C15 amended: within one call of is_network_up the destinations are pinged
\* in the shuffled order, each at most once, none after the first one that
\* answers; all of them are pinged only when every ping before the last one
\* fails, and the result is False only after all of them were pinged.
C15_ShortCircuit ==
    pc \in {"ping", "decide"} =>
        /\ pinged = SubSeq(ping_dests, 1, Len(pinged))
        /\ Cardinality(Range(pinged)) = Len(pinged)
        /\ \A i \in 1..(Len(pinged) - 1) : pinged[i] \notin reachable
        /\ Len(pinged) = Len(PING_DESTINATIONS) =>
              \A i \in 1..(Len(pinged) - 1) : pinged[i] \notin reachable
        /\ (pc = "decide" /\ ~verdict) => Range(pinged) = Range(PING_DESTINATIONS)
        /\ (pc = "decide" /\ verdict) => pinged[Len(pinged)] \in reachable

C15_Witness ==
    /\ pc = "decide"
    /\ verdict
    /\ Len(pinged) = 2
    /\ Cardinality(reachable) = 2
    /\ pinged[1] \notin reachable
    /\ ping_dests[1] # PING_DESTINATIONS[1]

\* C16: the first probe round starts only after the warm-up sleep of
\* ping_interval; a probe round starts only when a sleep has returned, and
\* after its verdict the iteration goes, without another probe round, to one
\* sleep: ping_interval after an up verdict, post_reboot_limit_interval after
\* the limit branch, post_reboot_interval after a reboot attempt; the pulse
\* lies between the verdict and that sleep.
C16_IterationShape ==
    [][/\ pc = "warmup" => (~probed /\ sleeping = args.ping_interval)
       /\ pc' = "loop" => pc \in {"warmup", "sleep"}
       /\ (pc' = "ping" /\ pc # "ping") => (pc = "loop" /\ slept)
       /\ pc = "loop" => pc' = "ping"
       /\ pc = "ping" => pc' \in {"ping", "decide"}
       /\ pc = "decide" =>
            /\ verdict => (pc' = "sleep" /\ sleeping' = args.ping_interval)
            /\ (~verdict /\ pc' = "sleep") =>
                  /\ sleeping' = args.post_reboot_limit_interval
                  /\ "reached_limit" \in Messages(logged')
            /\ (~verdict /\ pc' # "sleep") => pc' = "with"
       /\ pc = "with" => pc' \in {"output_on", "finally"}
       /\ pc = "output_on" => pc' \in {"output_off", "finally"}
       /\ pc = "output_off" => pc' = "finally"
       /\ pc = "finally" => pc' \in {"after_with", "crashed"}
       /\ pc = "after_with" =>
            /\ pc' = "sleep"
            /\ pulses = 1
            /\ sleeping' = args.post_reboot_interval
       /\ pc = "sleep" => pc' = "loop"]_vars

C16_Witness ==
    /\ pc = "sleep"
    /\ ~verdict
    /\ "reached_limit" \in Messages(logged)
    /\ args.ping_interval < args.post_reboot_interval
    /\ args.post_reboot_interval < args.post_reboot_limit_interval
    /\ sleeping = args.post_reboot_limit_interval
    /\ before.limit

\* C17: no step of the program changes a configuration field: interface,
\* ping_interval, post_reboot_interval, reboot_limit,
\* post_reboot_limit_interval, relay_gpio_pin and pulse_for_seconds keep the
\* values given at construction, so that of the object's fields only
\* reboot_count and reboots_reached_limit are written by the loop.
C17_ConfigFrozen ==
    [][/\ args'.interface = args.interface
       /\ args'.ping_interval = args.ping_interval
       /\ args'.post_reboot_interval = args.post_reboot_interval
       /\ args'.reboot_limit = args.reboot_limit
       /\ args'.post_reboot_limit_interval = args.post_reboot_limit_interval
       /\ args'.relay_gpio_pin = args.relay_gpio_pin
       /\ args'.pulse_for_seconds = args.pulse_for_seconds]_vars

C17_Witness ==
    /\ pc = "loop"
    /\ reboots_reached_limit
    /\ reboot_count = args.reboot_limit
    /\ args.reboot_limit > 1

\* C18: whenever the loop sleeps, reboot_count is the number of calls of
\* pulse_pin since the latest of process start, the last up verdict and the
\* last entry into the limit branch; pulse_pin is called only in an iteration
\* whose verdict was down, and at most once in it.
C18_CountIsPulses ==
    /\ pc \in {"warmup", "sleep"} => reboot_count = attempts
    /\ pulses <= 1
    /\ pulses > 0 => (~verdict /\ pc \notin {"ping", "decide"})

C18_Witness ==
    /\ pc = "sleep"
    /\ before.limit
    /\ reboot_count = 2
    /\ attempts = 2
    /\ pulses = 1

\* C19: reboots_reached_limit goes from false to true only in the limit
\* branch (down verdict, reboot_limit > 0, reboot_count >= reboot_limit) and
\* from true to false only at an up verdict; it stays true through the reboot
\* attempts that follow a backoff.
C19_FlagTransitions ==
    [][/\ (~reboots_reached_limit /\ reboots_reached_limit') =>
            /\ pc = "decide"
            /\ ~verdict
            /\ args.reboot_limit > 0
            /\ reboot_count >= args.reboot_limit
       /\ (reboots_reached_limit /\ ~reboots_reached_limit') =>
            /\ pc = "decide"
            /\ verdict
       /\ (reboots_reached_limit /\ pc = "after_with") =>
            /\ reboots_reached_limit'
            /\ reboot_count' > 0]_vars

C19_Witness ==
    /\ pc = "sleep"
    /\ ~verdict
    /\ reboots_reached_limit
    /\ before.limit
    /\ reboot_count = 1
    /\ "reboot_attempt" \in Messages(logged)

\* C20: under fair execution of the loop, if from some iteration on every
\* verdict is up, then from some point on reboot_count = 0 and
\* reboots_reached_limit = FALSE hold forever and the program is never again
\* in the reboot branch, whatever the state was when the network came back.
C20_RecoveryIsStable ==
    <>(pc = "decide" /\ verdict /\ [](pc = "decide" => verdict))
        => <>[](/\ reboot_count = 0
                /\ ~reboots_reached_limit
                /\ pc \notin {"with", "output_on", "output_off", "finally",
                              "after_with", "crashed"})

C20_Witness ==
    /\ pc = "sleep"
    /\ verdict
    /\ before.limit
    /\ before.count = 0
    /\ "back_up" \in Messages(logged)
    /\ reboot_count = 0
    /\ ~reboots_reached_limit
====
